---- MODULE Spec2Model ----
(***************************************************************************)
(* Model of html_to_json_converter.py (class HTMLToJSONConverter).         *)
(*                                                                         *)
(* Text values (markup, patterns, markdown, ids) are sequences of          *)
(* one-character strings, so that splitting, trimming, prefix tests and    *)
(* formatting are computed and not assumed.                                *)
(*                                                                         *)
(* Specifications:                                                         *)
(*   SpecNoise  remove_pattern_noise applied to bounded pattern lists      *)
(*   SpecUrl    extract_page_url applied to bounded documents              *)
(*   SpecChunk  markdown_to_json applied to bounded structured texts       *)
(*   Spec       a whole run: imports, convert_all, process_html_file       *)
(***************************************************************************)
EXTENDS Integers, Sequences, FiniteSets, TLC

VARIABLES
    pc,             \* position of the program / of the function under study
    args,           \* inputs of the function under study (record)
    ret,            \* its result (record), or NoValue before it returns
    env,            \* run: what is installed on the machine
    noise_patterns, \* run: self.noise_patterns
    html_files,     \* run: html_files of convert_all
    idx,            \* run: number of files convert_all has finished
    all_documents,  \* run: all_documents of convert_all
    output_file,    \* run: converted_documents.json: whether it exists, and its documents
    writes,         \* run: number of times the output file was opened for writing
    trace           \* run: per finished file, what process_html_file did

vars == <<pc, args, ret, env, noise_patterns, html_files, idx, all_documents, output_file,
          writes, trace>>

runVars == <<env, noise_patterns, html_files, idx, all_documents, output_file, writes, trace>>

NoValue == [none |-> TRUE]

\* the output file before anything is written to it
NoFile == [exists |-> FALSE, documents |-> <<>>]

----------------------------------------------------------------------------
(* Strings as sequences of characters *)

NL == "\n"
SP == " "

IsSpace(c) == c = SP \/ c = NL

RECURSIVE LStrip(_)
LStrip(s) ==
    IF s = <<>> THEN <<>>
    ELSE IF IsSpace(Head(s)) THEN LStrip(Tail(s)) ELSE s

RECURSIVE RStrip(_)
RStrip(s) ==
    IF s = <<>> THEN <<>>
    ELSE IF IsSpace(s[Len(s)]) THEN RStrip(SubSeq(s, 1, Len(s) - 1)) ELSE s

\* str.strip()
Strip(s) == RStrip(LStrip(s))

\* str.startswith(p)
StartsWith(s, p) == Len(p) <= Len(s) /\ SubSeq(s, 1, Len(p)) = p

\* str.split(sep) for a one-character separator: always at least one piece
RECURSIVE SplitAcc(_, _, _)
SplitAcc(s, sep, piece) ==
    IF s = <<>> THEN <<piece>>
    ELSE IF Head(s) = sep THEN <<piece>> \o SplitAcc(Tail(s), sep, <<>>)
    ELSE SplitAcc(Tail(s), sep, Append(piece, Head(s)))

Split(s, sep) == SplitAcc(s, sep, <<>>)

\* sep.join(parts)
RECURSIVE Join(_, _)
Join(parts, sep) ==
    IF parts = <<>> THEN <<>>
    ELSE IF Len(parts) = 1 THEN parts[1]
    ELSE parts[1] \o sep \o Join(Tail(parts), sep)

\* concatenation of a sequence of strings
RECURSIVE Concat(_)
Concat(parts) == IF parts = <<>> THEN <<>> ELSE Head(parts) \o Concat(Tail(parts))

\* '#' * n
RECURSIVE Repeat(_, _)
Repeat(c, n) == IF n <= 0 THEN <<>> ELSE <<c>> \o Repeat(c, n - 1)

\* number of occurrences of character c in s
RECURSIVE CountChar(_, _)
CountChar(s, c) ==
    IF s = <<>> THEN 0
    ELSE (IF Head(s) = c THEN 1 ELSE 0) + CountChar(Tail(s), c)

Digit(d) == <<"0", "1", "2", "3", "4", "5", "6", "7", "8", "9">>[d + 1]

\* str(i) for i >= 0, as in an f-string
RECURSIVE IntToStr(_)
IntToStr(i) == IF i < 10 THEN <<Digit(i)>> ELSE IntToStr(i \div 10) \o <<Digit(i % 10)>>

\* all sequences over S of length <= n
RECURSIVE SeqsUpTo(_, _)
SeqsUpTo(S, n) ==
    IF n = 0 THEN {<<>>}
    ELSE LET shorter == SeqsUpTo(S, n - 1)
         IN  shorter \cup {Append(s, x) : s \in {t \in shorter : Len(t) = n - 1}, x \in S}

Range(s) == {s[i] : i \in DOMAIN s}

----------------------------------------------------------------------------
(* remove_pattern_noise: regular-expression noise patterns *)

\* Bounds of SpecNoise
MaxPatterns == 2
MaxMarkup == 3

\* Markup characters the patterns are run over
MarkupAlphabet == {"a", "b", NL}

\* A repetition count of sre_constants.MAXREPEAT or more, as one pattern
\* element: the text {4294967295}
HugeRepeat == "{4294967295}"

\* The pattern language modelled: literal characters, "." (any character,
\* newline included under re.DOTALL), "(" which here is always an
\* unterminated group, so re.compile raises re.error on it at the end of the
\* pattern, and HugeRepeat, on which the parser raises OverflowError as soon
\* as it reads it.
PatternPool ==
    { <<"a">>, <<"a", "b">>, <<".", "b">>, <<"(">>, <<"b", "(">>, <<"b">>,
      <<"a", HugeRepeat>> }

\* re.compile(pattern) raises OverflowError: the repetition number is too large
ReOverflow(pattern) == \E i \in DOMAIN pattern : pattern[i] = HugeRepeat

\* re.compile(pattern) raises re.error
ReError(pattern) ==
    ~ReOverflow(pattern) /\ \E i \in DOMAIN pattern : pattern[i] = "("

\* one pattern position against one character, flags MULTILINE | DOTALL
CharMatches(p, c) == p = "." \/ p = c

MatchesAt(pattern, text) ==
    /\ Len(pattern) <= Len(text)
    /\ \A i \in DOMAIN pattern : CharMatches(pattern[i], text[i])

\* the substitution proper: leftmost non-overlapping matches replaced by ''
RECURSIVE DeleteMatches(_, _)
DeleteMatches(pattern, text) ==
    IF text = <<>> THEN <<>>
    ELSE IF MatchesAt(pattern, text)
         THEN DeleteMatches(pattern, SubSeq(text, Len(pattern) + 1, Len(text)))
         ELSE <<Head(text)>> \o DeleteMatches(pattern, Tail(text))

\* re.sub(pattern, '', text, flags=re.MULTILINE | re.DOTALL)
re_sub(pattern, text) ==
    IF ReOverflow(pattern)
    THEN [raised |-> "OverflowError", value |-> NoValue]
    ELSE IF ReError(pattern)
    THEN [raised |-> "re.error", value |-> NoValue]
    ELSE [raised |-> "", value |-> DeleteMatches(pattern, text)]

\* remove_pattern_noise: for pattern in self.noise_patterns: try re.sub
\* except re.error: log and go on; any other exception leaves the method
remove_pattern_noise(patterns, html_content) ==
    LET RECURSIVE Loop(_, _)
        Loop(i, html) ==
            IF i > Len(patterns) THEN [raised |-> "", value |-> html]
            ELSE LET r == re_sub(patterns[i], html)
                 IN  IF r.raised = "re.error" THEN Loop(i + 1, html)
                     ELSE IF r.raised # "" THEN r
                     ELSE Loop(i + 1, r.value)
    IN  Loop(1, html_content)

RunIdle ==
    /\ env = NoValue
    /\ noise_patterns = <<>>
    /\ html_files = <<>>
    /\ idx = 0
    /\ all_documents = <<>>
    /\ output_file = NoFile
    /\ writes = 0
    /\ trace = <<>>

InitNoise ==
    /\ pc = "call"
    /\ args \in [noise_patterns : SeqsUpTo(PatternPool, MaxPatterns),
                 html_content : SeqsUpTo(MarkupAlphabet, MaxMarkup)]
    /\ ret = NoValue
    /\ RunIdle

CallRemovePatternNoise ==
    /\ pc = "call"
    /\ ret' = remove_pattern_noise(args.noise_patterns, args.html_content)
    /\ pc' = "returned"
    /\ UNCHANGED <<args, runVars>>

NextNoise == CallRemovePatternNoise

SpecNoise == InitNoise /\ [][NextNoise]_vars

\* what the claim describes: only the patterns that compile, applied in order
RECURSIVE ApplyInOrder(_, _)
ApplyInOrder(patterns, text) ==
    IF patterns = <<>> THEN text
    ELSE ApplyInOrder(Tail(patterns), DeleteMatches(Head(patterns), text))

Compiles(pattern) == ~ReError(pattern) /\ ~ReOverflow(pattern)

\* C5: remove_pattern_noise returns the sequential application, in file
\* order, of exactly the patterns that compile; a pattern that does not compile
\* changes nothing and no exception escapes.
C5_SequentialValidPatterns ==
    pc = "returned" =>
        /\ ret.raised = ""
        /\ ret.value = ApplyInOrder(SelectSeq(args.noise_patterns, Compiles),
                                    args.html_content)

\* the part of C5 about the patterns on which re.compile raises re.error:
\* when no pattern raises anything else, the claim holds
C5_ReErrorPatternsSkipped ==
    (pc = "returned" /\ \A i \in DOMAIN args.noise_patterns :
                            ~ReOverflow(args.noise_patterns[i])) =>
        /\ ret.raised = ""
        /\ ret.value = ApplyInOrder(SelectSeq(args.noise_patterns, Compiles),
                                    args.html_content)

----------------------------------------------------------------------------
(* Markup.  An HTML text is a sequence of tokens, the units html.parser    *)
(* hands to the tree builder: start tags (with the one attribute pair the  *)
(* program reads), end tags, character data, comments, and marked sections *)
(* "<![x]>" with an unknown keyword, on which html.parser raises.          *)
(* Attribute names and rel/property values are plain strings; attribute    *)
(* values and character data are character sequences.                      *)

StartTag(tag, key, val) == [k |-> "start", tag |-> tag, key |-> key, val |-> val]
EndTag(tag) == [k |-> "end", tag |-> tag, key |-> "", val |-> <<>>]
Data(text) == [k |-> "data", tag |-> "", key |-> "", val |-> text]
CommentTok(text) == [k |-> "comment", tag |-> "", key |-> "", val |-> text]
MarkedSection == [k |-> "marked", tag |-> "", key |-> "", val |-> <<>>]

\* elements that never have content
VoidTags == {"link", "meta", "br", "hr", "img", "input", "embed"}

\* end tags for the still open elements, innermost first
RECURSIVE CloseAll(_)
CloseAll(stack) ==
    IF stack = <<>> THEN <<>>
    ELSE <<EndTag(stack[Len(stack)])>> \o CloseAll(SubSeq(stack, 1, Len(stack) - 1))

\* end tags for the open elements down to and including the innermost tag
RECURSIVE CloseTo(_, _)
CloseTo(stack, tag) ==
    IF stack[Len(stack)] = tag THEN <<EndTag(tag)>>
    ELSE <<EndTag(stack[Len(stack)])>> \o CloseTo(SubSeq(stack, 1, Len(stack) - 1), tag)

RECURSIVE PopTo(_, _)
PopTo(stack, tag) ==
    IF stack[Len(stack)] = tag THEN SubSeq(stack, 1, Len(stack) - 1)
    ELSE PopTo(SubSeq(stack, 1, Len(stack) - 1), tag)

\* the tree html.parser and the tree builder make of a token sequence, kept
\* as the balanced token sequence that str(soup) serialises: an end tag with
\* no open element is dropped, an end tag closes everything above its
\* element, and what is open at the end of input is closed there
RECURSIVE Balance(_, _)
Balance(tokens, stack) ==
    IF tokens = <<>> THEN CloseAll(stack)
    ELSE LET t == Head(tokens)
             rest == Tail(tokens)
         IN  CASE t.k = "start" /\ t.tag \in VoidTags -> <<t>> \o Balance(rest, stack)
               [] t.k = "start" /\ t.tag \notin VoidTags ->
                      <<t>> \o Balance(rest, Append(stack, t.tag))
               [] t.k = "end" ->
                      IF t.tag \in Range(stack)
                      THEN CloseTo(stack, t.tag) \o Balance(rest, PopTo(stack, t.tag))
                      ELSE Balance(rest, stack)
               [] OTHER -> <<t>> \o Balance(rest, stack)

\* BeautifulSoup(html_content, 'html.parser')
BeautifulSoup(html_content) ==
    IF \E i \in DOMAIN html_content : html_content[i].k = "marked"
    THEN [raised |-> "ParserRejectedMarkup", value |-> NoValue]
    ELSE [raised |-> "", value |-> Balance(html_content, <<>>)]

\* soup.find(tag, attr=value): first start tag in document order, 0 if none
RECURSIVE FindFrom(_, _, _, _)
FindFrom(soup, i, tag, key) ==
    IF i > Len(soup) THEN 0
    ELSE IF soup[i].k = "start" /\ soup[i].tag = tag /\ soup[i].key = key THEN i
    ELSE FindFrom(soup, i + 1, tag, key)

Find(soup, tag, key) == FindFrom(soup, 1, tag, key)

----------------------------------------------------------------------------
(* urllib.parse.urlparse, as far as scheme and netloc *)

LowerLetters == <<"a", "b", "c", "d", "e", "f", "g", "h", "i", "j", "k", "l", "m",
                  "n", "o", "p", "q", "r", "s", "t", "u", "v", "w", "x", "y", "z">>
UpperLetters == <<"A", "B", "C", "D", "E", "F", "G", "H", "I", "J", "K", "L", "M",
                  "N", "O", "P", "Q", "R", "S", "T", "U", "V", "W", "X", "Y", "Z">>

IsAlpha(c) == c \in Range(LowerLetters) \/ c \in Range(UpperLetters)
IsSchemeChar(c) ==
    IsAlpha(c) \/ c \in {"0", "1", "2", "3", "4", "5", "6", "7", "8", "9", "+", "-", "."}

LowerChar(c) ==
    IF c \in Range(UpperLetters)
    THEN LowerLetters[CHOOSE i \in DOMAIN UpperLetters : UpperLetters[i] = c]
    ELSE c

Lower(s) == [i \in DOMAIN s |-> LowerChar(s[i])]

\* s.find(c) over a set of characters: first index holding one of them, or
\* Len(s) + 1 when there is none
RECURSIVE FindAny(_, _, _)
FindAny(s, cs, i) ==
    IF i > Len(s) THEN Len(s) + 1
    ELSE IF s[i] \in cs THEN i ELSE FindAny(s, cs, i + 1)

urlparse(url) ==
    LET colon == FindAny(url, {":"}, 1)
        hasScheme == /\ colon <= Len(url)
                     /\ colon > 1
                     /\ IsAlpha(url[1])
                     /\ \A i \in 1..(colon - 1) : IsSchemeChar(url[i])
        scheme == IF hasScheme THEN Lower(SubSeq(url, 1, colon - 1)) ELSE <<>>
        rest == IF hasScheme THEN SubSeq(url, colon + 1, Len(url)) ELSE url
        netloc == IF StartsWith(rest, <<"/", "/">>)
                  THEN SubSeq(rest, 3, FindAny(rest, {"/", "?", "#"}, 3) - 1)
                  ELSE <<>>
    IN  [scheme |-> scheme, netloc |-> netloc]

Http == <<"h", "t", "t", "p">>

\* the loop over soup.find_all('a', href=True)
RECURSIVE FirstHttpAnchor(_, _)
FirstHttpAnchor(soup, i) ==
    IF i > Len(soup) THEN <<>>
    ELSE IF /\ soup[i].k = "start" /\ soup[i].tag = "a" /\ soup[i].key = "href"
            /\ StartsWith(soup[i].val, Http)
         THEN LET parsed == urlparse(soup[i].val)
              IN  parsed.scheme \o <<":", "/", "/">> \o parsed.netloc
         ELSE FirstHttpAnchor(soup, i + 1)

\* extract_page_url
extract_page_url(html_content) ==
    LET parsed == BeautifulSoup(html_content)
        soup == parsed.value
        canonical == Find(soup, "link", "canonical")
        og_url == Find(soup, "meta", "og:url")
    IN  IF parsed.raised # "" THEN [raised |-> parsed.raised, value |-> NoValue]
        ELSE IF canonical # 0 /\ soup[canonical].val # <<>>
             THEN [raised |-> "", value |-> soup[canonical].val]
        ELSE IF og_url # 0 /\ soup[og_url].val # <<>>
             THEN [raised |-> "", value |-> soup[og_url].val]
        ELSE [raised |-> "", value |-> FirstHttpAnchor(soup, 1)]

\* Bound of SpecUrl
MaxTags == 3

U_canon == <<"h", "t", "t", "p", "s", ":", "/", "/", "x", ".", "t", "/", "p">>
U_og == <<"h", "t", "t", "p", ":", "/", "/", "o", ".", "t", "/", "q">>
U_abs == <<"h", "t", "t", "p", "s", ":", "/", "/", "h", ".", "t", "/", "a", "?", "b">>
U_rel == <<"/", "d", "o", "c">>
U_httpdocs == <<"h", "t", "t", "p", "d", "o", "c", "s", "/", "i">>

\* the tags extract_page_url looks at, with present, empty and other values
UrlTagPool ==
    { StartTag("link", "canonical", U_canon),
      StartTag("link", "canonical", <<>>),
      StartTag("link", "stylesheet", U_rel),
      StartTag("meta", "og:url", U_og),
      StartTag("meta", "og:url", <<>>),
      StartTag("a", "href", U_abs),
      StartTag("a", "href", U_rel),
      StartTag("a", "href", U_httpdocs),
      StartTag("a", "name", <<>>) }

InitUrl ==
    /\ pc = "call"
    /\ args \in [html_content : SeqsUpTo(UrlTagPool, MaxTags)]
    /\ ret = NoValue
    /\ RunIdle

CallExtractPageUrl ==
    /\ pc = "call"
    /\ ret' = extract_page_url(args.html_content)
    /\ pc' = "returned"
    /\ UNCHANGED <<args, runVars>>

NextUrl == CallExtractPageUrl

SpecUrl == InitUrl /\ [][NextUrl]_vars

\* The strategies as the claim words them
IsAbsoluteHttpUrl(href) ==
    \/ StartsWith(href, <<"h", "t", "t", "p", ":", "/", "/">>)
    \/ StartsWith(href, <<"h", "t", "t", "p", "s", ":", "/", "/">>)

RECURSIVE FirstAbsoluteAnchor(_, _)
FirstAbsoluteAnchor(doc, i) ==
    IF i > Len(doc) THEN 0
    ELSE IF doc[i].tag = "a" /\ doc[i].key = "href" /\ IsAbsoluteHttpUrl(doc[i].val) THEN i
    ELSE FirstAbsoluteAnchor(doc, i + 1)

\* scheme://host of an absolute http(s) URL
SchemeAndHost(href) ==
    LET slashes == FindAny(href, {"/"}, 1)
    IN  SubSeq(href, 1, FindAny(href, {"/", "?", "#"}, slashes + 2) - 1)

ClaimedPageUrl(doc) ==
    LET canonical == Find(doc, "link", "canonical")
        og_url == Find(doc, "meta", "og:url")
        anchor == FirstAbsoluteAnchor(doc, 1)
    IN  IF canonical # 0 /\ doc[canonical].val # <<>> THEN doc[canonical].val
        ELSE IF og_url # 0 /\ doc[og_url].val # <<>> THEN doc[og_url].val
        ELSE IF anchor # 0 THEN SchemeAndHost(doc[anchor].val)
        ELSE <<>>

\* C4: extract_page_url returns the canonical href, else the og:url content,
\* else scheme://host of the first anchor whose href is an absolute http(s)
\* URL, else the empty string.
C4_FirstStrategyWins ==
    pc = "returned" => ret.raised = "" /\ ret.value = ClaimedPageUrl(args.html_content)

\* the part of C4 the code does implement: canonical before og:url before anchors
C4_CanonicalBeforeOgUrl ==
    pc = "returned" =>
        LET doc == args.html_content
            canonical == Find(doc, "link", "canonical")
            og_url == Find(doc, "meta", "og:url")
        IN  /\ (canonical # 0 /\ doc[canonical].val # <<>>) => ret.value = doc[canonical].val
            /\ (~(canonical # 0 /\ doc[canonical].val # <<>>)
                  /\ og_url # 0 /\ doc[og_url].val # <<>>) => ret.value = doc[og_url].val

----------------------------------------------------------------------------
(* markdown_to_json and the MarkdownHeaderTextSplitter it configures and   *)
(* calls (langchain_text_splitters.markdown: __init__, split_text,         *)
(* aggregate_lines_to_chunks, with return_each_line = False).              *)

Hash == "#"

\* headers_to_split_on, as written in markdown_to_json
headers_to_split_on_typo ==
    << <<Repeat(Hash, 1), "Header 1">>, <<Repeat(Hash, 2), "Header 1">>,
       <<Repeat(Hash, 3), "Header 3">>, <<Repeat(Hash, 4), "Header 4">>,
       <<Repeat(Hash, 5), "Header 5">>, <<Repeat(Hash, 6), "Header 6">> >>

headers_to_split_on ==
    << <<Repeat(Hash, 1), "Header 1">>, <<Repeat(Hash, 2), "Header 2">>,
       <<Repeat(Hash, 3), "Header 3">>, <<Repeat(Hash, 4), "Header 4">>,
       <<Repeat(Hash, 5), "Header 5">>, <<Repeat(Hash, 6), "Header 6">> >>

strip_headers == FALSE

\* sorted(headers, key=lambda split: len(split[0]), reverse=True): a stable
\* sort, longest marker first
RECURSIVE InsertByLen(_, _)
InsertByLen(sorted, h) ==
    IF sorted = <<>> THEN <<h>>
    ELSE IF Len(h[1]) > Len(Head(sorted)[1]) THEN <<h>> \o sorted
    ELSE <<Head(sorted)>> \o InsertByLen(Tail(sorted), h)

RECURSIVE SortedHeaders(_)
SortedHeaders(headers) ==
    IF headers = <<>> THEN <<>>
    ELSE InsertByLen(SortedHeaders(SubSeq(headers, 1, Len(headers) - 1)),
                     headers[Len(headers)])

EmptyMetadata == [name \in {} |-> <<>>]

\* dict with key name set / removed
DictSet(d, name, value) ==
    [n \in DOMAIN d \cup {name} |-> IF n = name THEN value ELSE d[n]]
DictPop(d, name) == [n \in DOMAIN d \ {name} |-> d[n]]

\* {**a, **b}
DictMerge(a, b) == [n \in DOMAIN a \cup DOMAIN b |-> IF n \in DOMAIN b THEN b[n] ELSE a[n]]

\* a control character (U+0000): not whitespace, not printable
Nul == "NUL"

\* str.isprintable() per character, over the characters of the model
IsPrintable(c) == c \notin {NL, Nul}
Printable(s) == SelectSeq(s, IsPrintable)

\* the backquote character (written out: the lexer rejects it in a literal)
BackQuote == "BACKQUOTE"
Fence == <<BackQuote, BackQuote, BackQuote>>
Tildes == <<"~", "~", "~">>

\* s.count(sub): non-overlapping occurrences
RECURSIVE CountSub(_, _)
CountSub(s, sub) ==
    IF Len(s) < Len(sub) THEN 0
    ELSE IF StartsWith(s, sub) THEN 1 + CountSub(SubSeq(s, Len(sub) + 1, Len(s)), sub)
    ELSE CountSub(Tail(s), sub)

\* index in the sorted header list of the first marker the line starts with,
\* followed by a space or by the end of the line; 0 if none
RECURSIVE MatchHeader(_, _, _)
MatchHeader(headers, stripped_line, i) ==
    IF i > Len(headers) THEN 0
    ELSE LET sep == headers[i][1]
         IN  IF /\ StartsWith(stripped_line, sep)
                /\ (Len(stripped_line) = Len(sep) \/ stripped_line[Len(sep) + 1] = SP)
             THEN i
             ELSE MatchHeader(headers, stripped_line, i + 1)

\* while header_stack and header_stack[-1]["level"] >= current_header_level:
\* pop it and drop its name from initial_metadata
RECURSIVE PopHeaders(_, _, _)
PopHeaders(header_stack, initial_metadata, level) ==
    IF header_stack # <<>> /\ header_stack[Len(header_stack)].level >= level
    THEN PopHeaders(SubSeq(header_stack, 1, Len(header_stack) - 1),
                    DictPop(initial_metadata, header_stack[Len(header_stack)].name),
                    level)
    ELSE [header_stack |-> header_stack, initial_metadata |-> initial_metadata]

SplitStart ==
    [ lines_with_metadata |-> <<>>,
      current_content |-> <<>>,
      current_metadata |-> EmptyMetadata,
      header_stack |-> <<>>,
      initial_metadata |-> EmptyMetadata,
      in_code_block |-> FALSE,
      opening_fence |-> <<>> ]

Flushed(st) ==
    IF st.current_content # <<>>
    THEN [st EXCEPT !.lines_with_metadata =
                        Append(@, [content |-> Join(st.current_content, <<NL>>),
                                   metadata |-> st.current_metadata]),
                    !.current_content = <<>>]
    ELSE st

\* one iteration of the loop of split_text over the lines
SplitLine(headers, st, line) ==
    LET stripped_line == Printable(Strip(line))
        fenced ==
            IF ~st.in_code_block
            THEN IF StartsWith(stripped_line, Fence) /\ CountSub(stripped_line, Fence) = 1
                 THEN [st EXCEPT !.in_code_block = TRUE, !.opening_fence = Fence]
                 ELSE IF StartsWith(stripped_line, Tildes)
                      THEN [st EXCEPT !.in_code_block = TRUE, !.opening_fence = Tildes]
                      ELSE st
            ELSE IF StartsWith(stripped_line, st.opening_fence)
                 THEN [st EXCEPT !.in_code_block = FALSE, !.opening_fence = <<>>]
                 ELSE st
        h == MatchHeader(headers, stripped_line, 1)
    IN  IF fenced.in_code_block
        THEN [fenced EXCEPT !.current_content = Append(@, stripped_line)]
        ELSE IF h # 0
        THEN LET sep == headers[h][1]
                 name == headers[h][2]
                 level == CountChar(sep, Hash)
                 popped == PopHeaders(fenced.header_stack, fenced.initial_metadata, level)
                 data == Strip(SubSeq(stripped_line, Len(sep) + 1, Len(stripped_line)))
                 tracked == [fenced EXCEPT
                                !.header_stack =
                                    Append(popped.header_stack,
                                           [level |-> level, name |-> name, data |-> data]),
                                !.initial_metadata =
                                    DictSet(popped.initial_metadata, name, data)]
                 flushed == Flushed(tracked)
             IN  [flushed EXCEPT
                     !.current_content =
                         IF strip_headers THEN @ ELSE Append(@, stripped_line),
                     !.current_metadata = tracked.initial_metadata]
        ELSE LET after == IF stripped_line # <<>>
                          THEN [fenced EXCEPT !.current_content = Append(@, stripped_line)]
                          ELSE Flushed(fenced)
             IN  [after EXCEPT !.current_metadata = fenced.initial_metadata]

RECURSIVE SplitLines(_, _, _)
SplitLines(headers, st, lines) ==
    IF lines = <<>> THEN st
    ELSE SplitLines(headers, SplitLine(headers, st, Head(lines)), Tail(lines))

LastLine(content) == LET ls == Split(content, NL) IN ls[Len(ls)]

\* aggregate_lines_to_chunks
RECURSIVE aggregate_lines_to_chunks(_, _)
aggregate_lines_to_chunks(aggregated_chunks, lines) ==
    IF lines = <<>> THEN aggregated_chunks
    ELSE LET line == Head(lines)
             n == Len(aggregated_chunks)
             joined == [aggregated_chunks EXCEPT
                           ![n].content = @ \o <<SP, SP, NL>> \o line.content]
         IN  IF n > 0 /\ aggregated_chunks[n].metadata = line.metadata
             THEN aggregate_lines_to_chunks(joined, Tail(lines))
             ELSE IF /\ n > 0
                     /\ Cardinality(DOMAIN aggregated_chunks[n].metadata)
                            < Cardinality(DOMAIN line.metadata)
                     /\ LastLine(aggregated_chunks[n].content)[1] = Hash
                     /\ ~strip_headers
             THEN aggregate_lines_to_chunks(
                      [joined EXCEPT ![n].metadata = line.metadata], Tail(lines))
             ELSE aggregate_lines_to_chunks(Append(aggregated_chunks, line), Tail(lines))

Document(page_content, metadata) == [page_content |-> page_content, metadata |-> metadata]

\* MarkdownHeaderTextSplitter(headers_to_split_on, strip_headers=False).split_text
split_text(text) ==
    LET st == Flushed(SplitLines(SortedHeaders(headers_to_split_on), SplitStart,
                                 Split(text, NL)))
        chunks == aggregate_lines_to_chunks(<<>>, st.lines_with_metadata)
    IN  [i \in DOMAIN chunks |-> Document(chunks[i].content, chunks[i].metadata)]

\* the documents markdown_to_json iterates over: the splitter's, or on any
\* exception of the splitter the whole text as one Document
SplitOrFallback(markdown_content, splitter_raises) ==
    IF splitter_raises
    THEN <<Document(markdown_content, EmptyMetadata)>>
    ELSE split_text(markdown_content)

Underscore == "_"

\* one json_doc of the loop over enumerate(docs); i is Python's index
json_doc_one_based(filename, url, i, doc) ==
    [ id |-> filename \o <<Underscore>> \o IntToStr(i + 1),
      content |-> Strip(doc.page_content),
      metadata |-> DictMerge([source |-> filename, url |-> url, section_id |-> i + 1],
                             doc.metadata) ]

json_doc(filename, url, i, doc) ==
    [ id |-> filename \o <<Underscore>> \o IntToStr(i),
      content |-> Strip(doc.page_content),
      metadata |-> DictMerge([source |-> filename, url |-> url, section_id |-> i],
                             doc.metadata) ]

\* the "JSON形式に変換" loop
Assemble(docs, url, filename) ==
    [i \in DOMAIN docs |-> json_doc(filename, url, i - 1, docs[i])]

\* markdown_to_json
markdown_to_json(markdown_content, url, filename, splitter_raises) ==
    Assemble(SplitOrFallback(markdown_content, splitter_raises), url, filename)

\* Bound of SpecChunk: lines per structured text
MaxLines == 4

\* the lines structured texts are made of
LinePool ==
    { <<>>,
      <<"t">>,
      <<Hash, SP, "A">>,
      <<Hash, Hash, SP, "B">>,
      <<SP, Hash, SP, "C", SP>>,
      <<Hash, Hash, Hash>>,
      <<Hash, "x">>,
      Fence,
      <<Nul, SP, Nul>> }

FilenamePool == { <<"a">>, <<"b", Underscore, "1">> }

InitChunk ==
    /\ pc = "call"
    /\ \E lines \in SeqsUpTo(LinePool, MaxLines), filename \in FilenamePool,
          raises \in BOOLEAN :
          args = [ markdown_content |-> Join(lines, <<NL>>),
                   url |-> U_canon,
                   filename |-> filename,
                   splitter_raises |-> raises ]
    /\ ret = NoValue
    /\ RunIdle

\* docs = markdown_splitter.split_text(markdown_content)
SplitterReturns ==
    /\ pc = "call"
    /\ ~args.splitter_raises
    /\ ret' = [docs |-> SplitOrFallback(args.markdown_content, FALSE), json_docs |-> <<>>]
    /\ pc' = "split"
    /\ UNCHANGED <<args, runVars>>

\* except Exception: docs = [Document(page_content=markdown_content, metadata={})]
SplitterRaises ==
    /\ pc = "call"
    /\ args.splitter_raises
    /\ ret' = [docs |-> SplitOrFallback(args.markdown_content, TRUE), json_docs |-> <<>>]
    /\ pc' = "split"
    /\ UNCHANGED <<args, runVars>>

\* the loop building json_docs, and the return
AssembleRecords ==
    /\ pc = "split"
    /\ ret' = [ret EXCEPT !.json_docs = Assemble(ret.docs, args.url, args.filename)]
    /\ pc' = "returned"
    /\ UNCHANGED <<args, runVars>>

NextChunk == SplitterReturns \/ SplitterRaises \/ AssembleRecords

SpecChunk == InitChunk /\ [][NextChunk]_vars

\* C2: markdown_to_json emits one record per section of the splitter, in
\* order; record i (from 0) has section_id i and id "<source_name>_<i>", and
\* its content is the trimmed section text, also when that is empty.
C2_OneRecordPerSection ==
    pc = "returned" =>
        /\ Len(ret.json_docs) = Len(ret.docs)
        /\ \A i \in DOMAIN ret.json_docs :
              /\ ret.json_docs[i].metadata["section_id"] = i - 1
              /\ ret.json_docs[i].id = args.filename \o <<Underscore>> \o IntToStr(i - 1)
              /\ ret.json_docs[i].content = Strip(ret.docs[i].page_content)

\* the splitter returned two sections, the first empty once trimmed, and both
\* were emitted
C2_Witness ==
    /\ pc = "returned"
    /\ ~args.splitter_raises
    /\ Len(ret.json_docs) = 2
    /\ ret.docs[1].page_content # <<>>
    /\ ret.json_docs[1].content = <<>>
    /\ ret.json_docs[2].metadata["section_id"] = 1

\* Heading levels and names as the claims word them
LevelName(level) ==
    <<"Header 1", "Header 2", "Header 3", "Header 4", "Header 5", "Header 6">>[level]

RECURSIVE LeadingHashes(_)
LeadingHashes(s) ==
    IF s # <<>> /\ Head(s) = Hash THEN 1 + LeadingHashes(Tail(s)) ELSE 0

\* a heading line: 1 to 6 hashes, then a space or the end of the line
IsHeadingLine(line) ==
    LET s == Strip(line)
        n == LeadingHashes(s)
    IN  n \in 1..6 /\ (Len(s) = n \/ s[n + 1] = SP)

HeadingLevel(line) == LeadingHashes(Strip(line))
HeadingText(line) ==
    LET s == Strip(line) IN Strip(SubSeq(s, HeadingLevel(line) + 1, Len(s)))

\* the splitter's state after the first i lines of the text
StateAfter(lines, i) ==
    SplitLines(SortedHeaders(headers_to_split_on), SplitStart, SubSeq(lines, 1, i))

\* line i is processed as a heading: it is one, outside a fenced code block
ProcessedHeading(lines, i) ==
    IsHeadingLine(lines[i]) /\ ~StateAfter(lines, i - 1).in_code_block

UpToLevel(metadata, level) ==
    [n \in {m \in DOMAIN metadata : \E j \in 1..level : m = LevelName(j)} |-> metadata[n]]

ContentLines(page_content) ==
    LET ls == Split(page_content, NL) IN [i \in DOMAIN ls |-> Strip(ls[i])]

\* C3: after a heading at level L is processed the heading path maps L to
\* its text, has no entry for a level > L, and its entries for levels < L are
\* those from before; the section the heading introduces carries that path
\* (plus, at most, deeper headings that follow it).
C3_HeadingPathMonotone ==
    (pc = "returned" /\ ~args.splitter_raises) =>
        LET lines == Split(args.markdown_content, NL)
        IN  \A i \in DOMAIN lines :
                ProcessedHeading(lines, i) =>
                    LET L == HeadingLevel(lines[i])
                        before == StateAfter(lines, i - 1).initial_metadata
                        after == StateAfter(lines, i).initial_metadata
                    IN  /\ LevelName(L) \in DOMAIN after
                        /\ after[LevelName(L)] = HeadingText(lines[i])
                        /\ \A j \in (L + 1)..6 : LevelName(j) \notin DOMAIN after
                        /\ \A j \in 1..(L - 1) :
                              /\ LevelName(j) \in DOMAIN after <=> LevelName(j) \in DOMAIN before
                              /\ LevelName(j) \in DOMAIN after =>
                                     after[LevelName(j)] = before[LevelName(j)]
                        /\ \E k \in DOMAIN ret.docs :
                              /\ \E n \in DOMAIN ContentLines(ret.docs[k].page_content) :
                                    ContentLines(ret.docs[k].page_content)[n] = Strip(lines[i])
                              /\ UpToLevel(ret.docs[k].metadata, L) = after

\* "# A", text, "## B", text: two sections, {Header 1: A} and
\* {Header 1: A, Header 2: B}
C3_Witness ==
    /\ pc = "returned"
    /\ ~args.splitter_raises
    /\ Len(ret.docs) = 2
    /\ ret.docs[1].metadata = [n \in {"Header 1"} |-> <<"A">>]
    /\ ret.docs[2].metadata =
           [n \in {"Header 1", "Header 2"} |-> IF n = "Header 1" THEN <<"A">> ELSE <<"B">>]
    /\ ret.json_docs[2].metadata["Header 2"] = <<"B">>

HasHeadingLine(text) ==
    LET lines == Split(text, NL) IN \E i \in DOMAIN lines : IsHeadingLine(lines[i])

\* C9: a non-empty structured text yields at least one section; without a
\* heading line, or when the splitter raises, exactly one, holding the whole
\* trimmed text with an empty heading path.
C9_WholeTextWithoutHeadings ==
    (pc = "returned" /\ args.markdown_content # <<>>) =>
        /\ Len(ret.json_docs) >= 1
        /\ (args.splitter_raises \/ ~HasHeadingLine(args.markdown_content)) =>
              /\ Len(ret.json_docs) = 1
              /\ ret.json_docs[1].content = Strip(args.markdown_content)
              /\ DOMAIN ret.json_docs[1].metadata = {"source", "url", "section_id"}

\* C9, its first clause: a non-empty structured text never yields zero
\* sections.
C9_NeverZeroSections ==
    (pc = "returned" /\ args.markdown_content # <<>>) => Len(ret.json_docs) >= 1

\* the part about the splitter raising, which the code does implement
C9_FallbackOnSplitterError ==
    (pc = "returned" /\ args.splitter_raises) =>
        /\ Len(ret.json_docs) = 1
        /\ ret.json_docs[1].content = Strip(args.markdown_content)
        /\ DOMAIN ret.json_docs[1].metadata = {"source", "url", "section_id"}

----------------------------------------------------------------------------
(* The tree operations of remove_common_noise and _simple_html_to_markdown, *)
(* on the balanced token sequence of a soup.                               *)

\* index of the end tag closing the element whose start tag is soup[i]
RECURSIVE ElementEndFrom(_, _, _)
ElementEndFrom(soup, j, depth) ==
    IF j > Len(soup) THEN Len(soup)
    ELSE IF soup[j].k = "end" THEN
             IF depth = 1 THEN j ELSE ElementEndFrom(soup, j + 1, depth - 1)
    ELSE IF soup[j].k = "start" /\ soup[j].tag \notin VoidTags
         THEN ElementEndFrom(soup, j + 1, depth + 1)
    ELSE ElementEndFrom(soup, j + 1, depth)

ElementEnd(soup, i) == ElementEndFrom(soup, i + 1, 1)

\* for element in soup.find_all(tag): element.decompose()
RECURSIVE Decompose(_, _)
Decompose(soup, tags) ==
    IF soup = <<>> THEN <<>>
    ELSE IF Head(soup).k = "start" /\ Head(soup).tag \in tags
         THEN IF Head(soup).tag \in VoidTags
              THEN Decompose(Tail(soup), tags)
              ELSE Decompose(SubSeq(soup, ElementEnd(soup, 1) + 1, Len(soup)), tags)
         ELSE <<Head(soup)>> \o Decompose(Tail(soup), tags)

noise_tags == {"script", "style", "noscript", "iframe", "object", "embed"}

IsNotComment(t) == t.k # "comment"

\* remove_common_noise
remove_common_noise(soup) == SelectSeq(Decompose(soup, noise_tags), IsNotComment)

\* element.get_text(): the character data below it, comments excluded
RECURSIVE get_text(_)
get_text(tokens) ==
    IF tokens = <<>> THEN <<>>
    ELSE (IF Head(tokens).k = "data" THEN Head(tokens).val ELSE <<>>)
             \o get_text(Tail(tokens))

\* for i, li in enumerate(ol.find_all('li'), 1): li.string = f"{i}. {text}\n"
\* find_all lists every li below the ol before any is changed, so an li nested
\* in another still takes a number although it is replaced with its parent
RECURSIVE NumberItems(_, _)
NumberItems(tokens, i) ==
    IF tokens = <<>> THEN <<>>
    ELSE IF Head(tokens).k = "start" /\ Head(tokens).tag = "li"
         THEN LET e == ElementEnd(tokens, 1)
                  inner == SubSeq(tokens, 2, e - 1)
                  nested == Len(SelectSeq(inner, LAMBDA t : t.k = "start" /\ t.tag = "li"))
              IN  <<Head(tokens),
                    Data(IntToStr(i) \o <<".", SP>> \o get_text(inner) \o <<NL>>),
                    EndTag("li")>>
                      \o NumberItems(SubSeq(tokens, e + 1, Len(tokens)), i + 1 + nested)
         ELSE <<Head(tokens)>> \o NumberItems(Tail(tokens), i)

\* element.string = <text>, for every outermost element with the tag; mode
\* says which text
HeadingTags == <<"h1", "h2", "h3", "h4", "h5", "h6">>

HeadingNumber(tag) == CHOOSE i \in DOMAIN HeadingTags : HeadingTags[i] = tag

\* element.string = <text>, for every outermost element with the tag
RECURSIVE SetStrings(_, _)
NewString(tag, inner) ==
    CASE tag \in Range(HeadingTags) ->
             Repeat(Hash, HeadingNumber(tag)) \o <<SP>> \o get_text(inner) \o <<NL, NL>>
      [] tag = "p" -> get_text(inner) \o <<NL, NL>>
      [] tag = "li" -> <<"-", SP>> \o get_text(inner) \o <<NL>>
      [] tag = "ul" -> get_text(SetStrings(inner, "li")) \o <<NL>>
      [] tag = "ol" -> get_text(NumberItems(inner, 1)) \o <<NL>>

SetStrings(soup, tag) ==
    IF soup = <<>> THEN <<>>
    ELSE IF Head(soup).k = "start" /\ Head(soup).tag = tag
         THEN LET e == ElementEnd(soup, 1)
              IN  <<Head(soup), Data(NewString(tag, SubSeq(soup, 2, e - 1))), EndTag(tag)>>
                      \o SetStrings(SubSeq(soup, e + 1, Len(soup)), tag)
         ELSE <<Head(soup)>> \o SetStrings(Tail(soup), tag)

\* for i in range(1, 7): for heading in soup.find_all(f'h{i}')
RECURSIVE HeadingPasses(_, _)
HeadingPasses(soup, i) ==
    IF i > 6 THEN soup ELSE HeadingPasses(SetStrings(soup, HeadingTags[i]), i + 1)

\* _simple_html_to_markdown
_simple_html_to_markdown(html_content) ==
    LET parsed == BeautifulSoup(html_content)
        headings == HeadingPasses(parsed.value, 1)
        paragraphs == SetStrings(headings, "p")
        uls == SetStrings(paragraphs, "ul")
        ols == SetStrings(uls, "ol")
    IN  IF parsed.raised # "" THEN [raised |-> parsed.raised, value |-> NoValue]
        ELSE [raised |-> "", value |-> get_text(ols)]

\* pypandoc.convert_text(html_content, 'commonmark', format='html',
\* extra_args=['--wrap=none']), the external converter: OSError when no pandoc
\* program is found; otherwise CommonMark blocks, each ended by a blank line,
\* with the document title left out and the outer blank space trimmed
pypandoc_convert_text(html_content, pandoc_found) ==
    LET body == Decompose(Balance(html_content, <<>>), {"title"})
        lists == SetStrings(SetStrings(SetStrings(HeadingPasses(body, 1), "p"), "ul"), "ol")
        text == Strip(get_text(lists))
    IN  IF ~pandoc_found THEN [raised |-> "OSError", value |-> NoValue]
        ELSE [raised |-> "", value |-> IF text = <<>> THEN <<>> ELSE text \o <<NL>>]

\* html_to_markdown
html_to_markdown(html_content, pandoc_found) ==
    LET converted == pypandoc_convert_text(html_content, pandoc_found)
        fallback == _simple_html_to_markdown(html_content)
    IN  IF converted.raised = ""
        THEN [raised |-> "", value |-> converted.value, via |-> "pandoc"]
        ELSE [raised |-> fallback.raised, value |-> fallback.value, via |-> "fallback"]

----------------------------------------------------------------------------
(* A run of the script: install_pandoc, the imports, main, convert_all.    *)

\* Bound of Spec: files in the input directory
MaxFiles == 2

Dot == "."
ExtHtml == <<Dot, "h", "t", "m", "l">>
ExtHtm == <<Dot, "h", "t", "m">>

EndsWith(s, suffix) ==
    Len(suffix) <= Len(s) /\ SubSeq(s, Len(s) - Len(suffix) + 1, Len(s)) = suffix

\* input_dir.glob('*.html'), glob('*.htm'): the whole name must match; the
\* star matches any text, the empty one and one that starts with a dot too
GlobMatches(name, ext) == EndsWith(name, ext)

RECURSIVE LastIndexOf(_, _, _)
LastIndexOf(s, c, i) ==
    IF i = 0 THEN 0 ELSE IF s[i] = c THEN i ELSE LastIndexOf(s, c, i - 1)

\* Path.stem: the name without its last suffix
Stem(name) ==
    LET dot == LastIndexOf(name, Dot, Len(name))
    IN  IF dot > 1 THEN SubSeq(name, 1, dot - 1) ELSE name

NamePool ==
    { <<"a">> \o ExtHtml, ExtHtml, <<"a">> \o ExtHtm,
      <<"n", Dot, "t", "x", "t">> }

Element(tag, text) == <<StartTag(tag, "", <<>>), Data(text), EndTag(tag)>>

\* file contents: bytes that decode as UTF-8 to markup, or that do not
DocPool ==
    { [ decodable |-> TRUE,
        html |-> <<StartTag("link", "canonical", U_canon)>> \o Element("h1", <<"A">>)
                     \o Element("script", <<"x">>) \o Element("p", <<"t">>) ],
      [ decodable |-> TRUE,
        html |-> Element("title", <<"T">>) \o <<StartTag("meta", "og:url", U_og)>>
                     \o Element("h1", <<"A">>) \o <<CommentTok(<<"c">>)>>
                     \o Element("p", <<"t">>) \o Element("h2", <<"B">>)
                     \o <<StartTag("ol", "", <<>>)>> \o Element("li", <<"i">>)
                     \o Element("li", <<"j">>) \o <<EndTag("ol")>> ],
      [ decodable |-> TRUE,
        html |-> Element("p", <<"t">>) \o <<MarkedSection>> ],
      [ decodable |-> FALSE, html |-> <<>> ] }

\* contents of noise_pattern.txt: absent, or its lines
NoiseFilePool ==
    { NoValue,
      [lines |-> << <<"(">>, <<>> >>],
      [lines |-> << <<SP, "(">>, <<Dot, SP>> >>],
      [lines |-> << <<"t", HugeRepeat>> >>] }

IsNonEmpty(s) == s # <<>>

\* _load_noise_patterns
_load_noise_patterns(noise_pattern_file) ==
    IF noise_pattern_file = NoValue THEN <<>>
    ELSE SelectSeq([i \in DOMAIN noise_pattern_file.lines |->
                       Strip(noise_pattern_file.lines[i])], IsNonEmpty)

Injective(f) == \A i, j \in DOMAIN f : f[i] = f[j] => i = j

Orderings(S) == {f \in [1..Cardinality(S) -> S] : Injective(f)}

Failed(file, raised, stage) ==
    [ file |-> file, raised |-> raised, stage |-> stage, url |-> NoValue,
      clean_html |-> NoValue, markdown |-> NoValue, via |-> "", docs |-> <<>> ]

\* process_html_file: the try body, and except Exception: return []
process_html_file(file, patterns, pandoc_found, splitter_raises) ==
    LET html_content == file.content.html
        url == extract_page_url(html_content)
        parsed == BeautifulSoup(html_content)
        soup == remove_common_noise(parsed.value)
        clean_html == remove_pattern_noise(patterns, soup)
        markdown_content == html_to_markdown(clean_html.value, pandoc_found)
        json_docs == markdown_to_json(markdown_content.value, url.value,
                                      Stem(file.name), splitter_raises)
    IN  IF ~file.content.decodable THEN Failed(file, "UnicodeDecodeError", "read")
        ELSE IF url.raised # "" THEN Failed(file, url.raised, "extract_page_url")
        ELSE IF parsed.raised # "" THEN Failed(file, parsed.raised, "remove_common_noise")
        ELSE IF clean_html.raised # ""
             THEN Failed(file, clean_html.raised, "remove_pattern_noise")
        ELSE IF markdown_content.raised # ""
             THEN Failed(file, markdown_content.raised, "html_to_markdown")
        ELSE [ file |-> file, raised |-> "", stage |-> "done", url |-> url.value,
               clean_html |-> clean_html.value, markdown |-> markdown_content.value,
               via |-> markdown_content.via, docs |-> json_docs ]

\* apt-get: installs pandoc, exits with an error, or is not on the PATH
AptGetOutcomes == {"works", "fails", "missing"}

Init ==
    /\ pc = "install"
    /\ args = NoValue
    /\ ret = NoValue
    /\ \E names \in SUBSET NamePool :
          /\ Cardinality(names) <= MaxFiles
          /\ \E dir \in [names -> DocPool], noise \in NoiseFilePool,
                pandoc, pip, module \in BOOLEAN, apt \in AptGetOutcomes :
                env = [ input_dir |-> dir,
                        noise_pattern_file |-> noise,
                        pandoc_program |-> pandoc,
                        apt_get |-> apt,
                        pip_works |-> pip,
                        pypandoc_module |-> module ]
    /\ noise_patterns = <<>>
    /\ html_files = <<>>
    /\ idx = 0
    /\ all_documents = <<>>
    /\ output_file = NoFile
    /\ writes = 0
    /\ trace = <<>>

\* install_pandoc: pandoc --version succeeds
PandocAlreadyInstalled ==
    /\ pc = "install"
    /\ env.pandoc_program
    /\ pc' = "import"
    /\ UNCHANGED <<args, ret, runVars>>

\* install_pandoc: apt-get install -y pandoc succeeds
InstallPandocWithApt ==
    /\ pc = "install"
    /\ ~env.pandoc_program
    /\ env.apt_get = "works"
    /\ env' = [env EXCEPT !.pandoc_program = TRUE]
    /\ pc' = "import"
    /\ UNCHANGED <<args, ret, noise_patterns, html_files, idx, all_documents,
                   output_file, writes, trace>>

\* install_pandoc: there is no apt-get program: check_call raises
\* FileNotFoundError, which except subprocess.CalledProcessError lets through
AptGetNotFound ==
    /\ pc = "install"
    /\ ~env.pandoc_program
    /\ env.apt_get = "missing"
    /\ pc' = "crashed"
    /\ ret' = [raised |-> "FileNotFoundError", line |-> 48]
    /\ UNCHANGED <<args, runVars>>

\* install_pandoc: apt-get fails, pip install pypandoc (its failure is not caught)
InstallPypandocWithPip ==
    /\ pc = "install"
    /\ ~env.pandoc_program
    /\ env.apt_get = "fails"
    /\ IF env.pip_works
       THEN /\ env' = [env EXCEPT !.pypandoc_module = TRUE]
            /\ pc' = "import"
            /\ ret' = ret
       ELSE /\ env' = env
            /\ pc' = "crashed"
            /\ ret' = [raised |-> "CalledProcessError", line |-> 54]
    /\ UNCHANGED <<args, noise_patterns, html_files, idx, all_documents,
                   output_file, writes, trace>>

\* the module-level imports: import pypandoc
ImportModules ==
    /\ pc = "import"
    /\ IF env.pypandoc_module
       THEN pc' = "main" /\ ret' = ret
       ELSE pc' = "crashed" /\ ret' = [raised |-> "ModuleNotFoundError", line |-> 63]
    /\ UNCHANGED <<args, runVars>>

\* a start of convert_all that writes an empty collection when it finds no file
ConvertAllStart_writes_empty ==
    /\ pc = "main"
    /\ noise_patterns' = _load_noise_patterns(env.noise_pattern_file)
    /\ \E htmls \in Orderings({n \in DOMAIN env.input_dir : GlobMatches(n, ExtHtml)}),
          htms \in Orderings({n \in DOMAIN env.input_dir : GlobMatches(n, ExtHtm)}) :
          html_files' = [i \in 1..(Len(htmls) + Len(htms)) |->
                            LET n == (htmls \o htms)[i]
                            IN  [name |-> n, content |-> env.input_dir[n]]]
    /\ IF html_files' = <<>>
       THEN /\ pc' = "done"
            /\ output_file' = [exists |-> TRUE, documents |-> <<>>]
            /\ writes' = writes + 1
       ELSE /\ pc' = "loop"
            /\ output_file' = output_file
            /\ writes' = writes
    /\ UNCHANGED <<args, ret, env, idx, all_documents, trace>>

\* main: the constructor (_load_noise_patterns), then convert_all up to its
\* loop: the two globs, and the early return when they find nothing
ConvertAllStart ==
    /\ pc = "main"
    /\ noise_patterns' = _load_noise_patterns(env.noise_pattern_file)
    /\ \E htmls \in Orderings({n \in DOMAIN env.input_dir : GlobMatches(n, ExtHtml)}),
          htms \in Orderings({n \in DOMAIN env.input_dir : GlobMatches(n, ExtHtm)}) :
          html_files' = [i \in 1..(Len(htmls) + Len(htms)) |->
                            LET n == (htmls \o htms)[i]
                            IN  [name |-> n, content |-> env.input_dir[n]]]
    /\ pc' = IF html_files' = <<>> THEN "done" ELSE "loop"
    /\ UNCHANGED <<args, ret, env, idx, all_documents, output_file, writes, trace>>

\* a loop that stops at the first file that fails
ProcessFile_stops_on_failure ==
    /\ pc = "loop"
    /\ idx < Len(html_files)
    /\ \E splitter_raises \in BOOLEAN :
          LET r == process_html_file(html_files[idx + 1], noise_patterns,
                                     env.pandoc_program, splitter_raises)
          IN  /\ all_documents' = all_documents \o r.docs
              /\ trace' = Append(trace, r)
              /\ idx' = IF r.raised # "" THEN Len(html_files) ELSE idx + 1
    /\ UNCHANGED <<pc, args, ret, env, noise_patterns, html_files, output_file, writes>>

\* one iteration of the loop of convert_all: process_html_file, extend
ProcessFile ==
    /\ pc = "loop"
    /\ idx < Len(html_files)
    /\ \E splitter_raises \in BOOLEAN :
          LET r == process_html_file(html_files[idx + 1], noise_patterns,
                                     env.pandoc_program, splitter_raises)
          IN  /\ all_documents' = all_documents \o r.docs
              /\ trace' = Append(trace, r)
    /\ idx' = idx + 1
    /\ UNCHANGED <<pc, args, ret, env, noise_patterns, html_files, output_file, writes>>

\* after the loop: json.dump(all_documents) into converted_documents.json
WriteOutput ==
    /\ pc = "loop"
    /\ idx = Len(html_files)
    /\ output_file' = [exists |-> TRUE, documents |-> all_documents]
    /\ writes' = writes + 1
    /\ pc' = "done"
    /\ UNCHANGED <<args, ret, env, noise_patterns, html_files, idx, all_documents, trace>>

Next ==
    \/ PandocAlreadyInstalled
    \/ InstallPandocWithApt
    \/ AptGetNotFound
    \/ InstallPypandocWithPip
    \/ ImportModules
    \/ ConvertAllStart
    \/ ProcessFile
    \/ WriteOutput

Spec == Init /\ [][Next]_vars

----------------------------------------------------------------------------
(* Claims about a run *)

\* C1: all id values in the collection written by a run are pairwise distinct.
C1_IdsPairwiseDistinct ==
    (pc = "done" /\ output_file.exists) =>
        \A i, j \in DOMAIN output_file.documents :
            output_file.documents[i].id = output_file.documents[j].id => i = j

RECURSIVE DocsOf(_)
DocsOf(entries) ==
    IF entries = <<>> THEN <<>> ELSE Head(entries).docs \o DocsOf(Tail(entries))

\* C6: with at least one input file, the written collection is the
\* concatenation, in discovery order, of each file's records in section
\* order; a file that raised contributes nothing and the files after it are
\* processed all the same.
C6_ConcatenationInDiscoveryOrder ==
    (pc = "done" /\ html_files # <<>>) =>
        /\ Len(trace) = Len(html_files)
        /\ \A i \in DOMAIN trace :
              /\ trace[i].file = html_files[i]
              /\ trace[i].raised # "" => trace[i].docs = <<>>
              /\ \A j \in DOMAIN trace[i].docs :
                    /\ trace[i].docs[j].metadata["section_id"] = j - 1
                    /\ trace[i].docs[j].metadata["source"] = Stem(html_files[i].name)
        /\ output_file = [exists |-> TRUE, documents |-> DocsOf(trace)]

\* the first of two files raised, the second was processed and its records
\* are the collection
C6_Witness ==
    /\ pc = "done"
    /\ Len(html_files) = 2
    /\ trace[1].raised # ""
    /\ trace[2].raised = ""
    /\ Len(trace[2].docs) = 2
    /\ output_file.documents = trace[2].docs

\* C7: without an .html or .htm file convert_all returns early, processes
\* nothing and leaves no output file; with at least one, the output file is
\* written exactly once, and only once every file has been processed.
C7_WrittenOnceAfterAllFiles ==
    /\ writes <= 1
    /\ (writes = 0) <=> ~output_file.exists
    /\ writes = 1 =>
          /\ pc = "done"
          /\ html_files # <<>>
          /\ idx = Len(html_files)
          /\ Len(trace) = Len(html_files)
    /\ pc = "done" =>
          /\ html_files = <<>> => (writes = 0 /\ trace = <<>> /\ all_documents = <<>>)
          /\ html_files # <<>> => writes = 1

\* every file failed: the empty collection is written all the same, once
C7_Witness ==
    /\ pc = "done"
    /\ Len(html_files) = 2
    /\ \A i \in DOMAIN trace : trace[i].raised # ""
    /\ output_file = [exists |-> TRUE, documents |-> <<>>]
    /\ writes = 1

\* a directory with files, none of them .html or .htm: nothing is written
C7_WitnessNoInput ==
    /\ pc = "done"
    /\ DOMAIN env.input_dir # {}
    /\ html_files = <<>>
    /\ ~output_file.exists

ParserRejects(file) ==
    file.content.decodable /\ BeautifulSoup(file.content.html).raised # ""

\* C8: the noise filter never raises: when parsing or stripping the markup
\* fails, the unmodified markup goes on through the pipeline of the file.
C8_NoiseFilterNeverRaises ==
    \A i \in DOMAIN trace :
        ParserRejects(trace[i].file) =>
            /\ trace[i].raised = ""
            /\ trace[i].clean_html = trace[i].file.content.html

ReachedConversion(entry) == entry.stage \in {"done", "html_to_markdown"}

\* the part of C10 about pypandoc.convert_text raising when called
C10_FallbackWhenConvertTextRaises ==
    \A i \in DOMAIN trace :
        ReachedConversion(trace[i]) =>
            /\ ~env.pandoc_program =>
                  /\ trace[i].raised = ""
                  /\ trace[i].via = "fallback"
                  /\ trace[i].markdown = _simple_html_to_markdown(trace[i].clean_html).value
            /\ trace[i].via = "fallback" => ~env.pandoc_program

\* C10: when the external converter raises or is unavailable, no file fails
\* for it: html_to_markdown returns what _simple_html_to_markdown makes of the
\* same cleaned HTML and the file goes on to chunking; the fallback is used in
\* that case only. In particular no run with an input file ends on the
\* converter module being unavailable, before any file is converted.
C10_FallbackWhenConverterUnavailable ==
    /\ C10_FallbackWhenConvertTextRaises
    /\ \A name \in DOMAIN env.input_dir :
          ( /\ GlobMatches(name, ExtHtml) \/ GlobMatches(name, ExtHtm)
            /\ env.input_dir[name].decodable
            /\ BeautifulSoup(env.input_dir[name].html).raised = "" ) =>
              ~(pc = "crashed" /\ ret.raised = "ModuleNotFoundError")

====
